---- MODULE Spec2Model ----
(***************************************************************************)
(* The orchestration loop of the math solver agent (src/agent.py,          *)
(* agent_chain): one call of SimpleAgentExecutor.invoke, driven by a       *)
(* scripted model client and a scripted Python REPL tool.                  *)
(*                                                                         *)
(* Texts are sequences of strings.  Every text the code inspects (the code *)
(* submitted to the tool, the raw tool arguments) is a sequence of         *)
(* one-character strings; the fixed messages the code only concatenates    *)
(* are kept as whole strings.  Concatenation is \o.                        *)
(***************************************************************************)
EXTENDS Integers, Sequences, FiniteSets, TLC

VARIABLES
    script,              \* the scripted model client: <<first response, later responses>>
    input_dict,          \* the argument of invoke: input and conversation_history
    messages,            \* agent_chain: messages
    intermediate_steps,  \* agent_chain: intermediate_steps
    previous_codes,      \* agent_chain: previous_codes
    iteration,           \* agent_chain: the for loop's variable (rounds completed)
    response,            \* agent_chain: the last response of the model client
    tc_index,            \* position of the inner for loop over tool_calls
    pc,                  \* AWAIT_MODEL, DISPATCH_TOOLS, EXHAUSTED, DONE, RAISED
    result,              \* what invoke gave its caller: nothing yet, a dict, an exception
    llm_requests,        \* number of llm_with_tools.invoke calls made
    tool_runs,           \* number of tool_map[tool_name].invoke calls made
    bindings,            \* the names bound in the globals of the Python REPL tool
    graph_png,           \* app.py: the file graph.png of the working directory
    st_messages,         \* app.py: st.session_state.messages of each browser session
    image_data,          \* process_and_display: image_data of each browser session
    displayed,           \* the plots st.image has shown in each browser session
    prompts,             \* the number of prompts each browser session has submitted
    ui_pc                \* process_and_display: where each browser session stands

agentvars == <<script, input_dict, messages, intermediate_steps, previous_codes,
               iteration, response, tc_index, pc, result, llm_requests, tool_runs,
               bindings>>

uivars == <<graph_png, st_messages, image_data, displayed, prompts, ui_pc>>

vars == <<agentvars, uivars>>

(***************************************************************************)
(* Bounds of the model.                                                    *)
(***************************************************************************)
\* Most tool calls one scripted response carries.
MaxCalls == 2

(***************************************************************************)
(* Program constants.                                                      *)
(***************************************************************************)
max_iterations == 10
\* previous_codes[-2:]
LoopWindow == 2
\* len(previous_codes) > 5
MaxPreviousCodes == 5

(***************************************************************************)
(* Python string operations on texts of one-character strings.             *)
(***************************************************************************)
Whitespace == {" ", "\n", "\t"}

AlnumChars ==
    {"a","b","c","d","e","f","g","h","i","j","k","l","m","n","o","p","q","r",
     "s","t","u","v","w","x","y","z","0","1","2","3","4","5","6","7","8","9"}

Digits == {"0","1","2","3","4","5","6","7","8","9"}

\* sub in s
Contains(s, sub) ==
    \E i \in 1..(Len(s) - Len(sub) + 1) : SubSeq(s, i, i + Len(sub) - 1) = sub

\* s.startswith(sub)
StartsWith(s, sub) ==
    Len(s) >= Len(sub) /\ SubSeq(s, 1, Len(sub)) = sub

\* s.strip()
Strip(s) ==
    LET keep == {i \in 1..Len(s) : s[i] \notin Whitespace}
    IN  IF keep = {} THEN <<>>
        ELSE LET lo == CHOOSE i \in keep : \A j \in keep : i <= j
                 hi == CHOOSE i \in keep : \A j \in keep : i >= j
             IN  SubSeq(s, lo, hi)

\* s.split('\n')[-1]
LastOfSplit(s) ==
    LET nl == {i \in 1..Len(s) : s[i] = "\n"}
    IN  IF nl = {} THEN s
        ELSE LET last == CHOOSE i \in nl : \A j \in nl : i >= j
             IN  SubSeq(s, last + 1, Len(s))

\* s.replace(ch, '')
RECURSIVE Remove(_, _)
Remove(s, ch) ==
    IF s = <<>> THEN <<>>
    ELSE IF Head(s) = ch THEN Remove(Tail(s), ch)
    ELSE <<Head(s)>> \o Remove(Tail(s), ch)

\* s.isalnum()
IsAlnum(s) ==
    s # <<>> /\ \A i \in 1..Len(s) : s[i] \in AlnumChars

\* 'print(' in code
HasPrint(code) == Contains(code, <<"p","r","i","n","t","(">>)

\* lines = code.strip().split('\n'); last_line = lines[-1].strip() if lines else ""
LastLine(code) == Strip(LastOfSplit(Strip(code)))

\* is_variable_line of agent_chain
IsVariableLine(last_line) ==
    /\ last_line # <<>>
    /\ ~StartsWith(last_line, <<"#">>)
    /\ ~Contains(last_line, <<"=">>)
    /\ ~Contains(last_line, <<"(">>)
    /\ \/ IsAlnum(Remove(Remove(last_line, "_"), "."))
       \/ Contains(last_line, <<"_">>)

(***************************************************************************)
(* Python values that tool-call arguments can be.  A dict is the sequence  *)
(* of its (key, value) items, with text values; a str is its text; the     *)
(* other values JSON can decode to carry no content the code reads.        *)
(***************************************************************************)
PyDict(items) == [t |-> "dict", items |-> items, s |-> <<>>]
PyStr(s) == [t |-> "str", items |-> <<>>, s |-> s]
PyInt == [t |-> "int", items |-> <<>>, s |-> <<>>]
PyList == [t |-> "list", items |-> <<>>, s |-> <<>>]
PyNone == [t |-> "none", items |-> <<>>, s |-> <<>>]

\* key in d
HasKey(d, key) == \E i \in 1..Len(d.items) : d.items[i][1] = key

\* d[key], for a key of d
Lookup(d, key) ==
    LET i == CHOOSE j \in 1..Len(d.items) : d.items[j][1] = key
    IN  d.items[i][2]

\* d.get(key, default)
DictGet(d, key, default) == IF HasKey(d, key) THEN Lookup(d, key) ELSE default

\* The characters of a key name.
KeyChars(key) ==
    CASE key = "query" -> <<"q","u","e","r","y">>
      [] key = "code" -> <<"c","o","d","e">>
      [] key = "input" -> <<"i","n","p","u","t">>
      [] OTHER -> <<"o","t","h","e","r">>

\* repr of a text inside a dict's repr: quoted, line breaks escaped
RECURSIVE Escape(_)
Escape(s) ==
    IF s = <<>> THEN <<>>
    ELSE IF Head(s) = "\n" THEN <<"\\", "n">> \o Escape(Tail(s))
    ELSE <<Head(s)>> \o Escape(Tail(s))

Quoted(s) == <<"'">> \o Escape(s) \o <<"'">>

RECURSIVE ReprItems(_)
ReprItems(items) ==
    IF items = <<>> THEN <<>>
    ELSE Quoted(KeyChars(items[1][1])) \o <<":", " ">> \o Quoted(items[1][2])
         \o (IF Len(items) > 1 THEN <<",", " ">> ELSE <<>>)
         \o ReprItems(Tail(items))

\* str(tool_args) of a dict
StrOfDict(d) == <<"{">> \o ReprItems(d.items) \o <<"}">>

(***************************************************************************)
(* json.loads on the raw argument texts of the model: a number, null, an   *)
(* empty list, a string, an empty object or an object of one text field    *)
(* decode; every other text is not JSON.                                   *)
(***************************************************************************)
Keys == {"query", "code", "input", "other"}

\* A text that can stand between the quotes of a JSON string as it is.
PlainJsonChars(s) == \A i \in 1..Len(s) : s[i] \notin {"\"", "\\", "\n", "\t"}

JsonQuoted(s) == <<"\"">> \o s \o <<"\"">>

\* json.dumps of a dict of one text field
JsonObject(key, value) ==
    <<"{">> \o JsonQuoted(KeyChars(key)) \o <<":", " ">> \o JsonQuoted(value) \o <<"}">>

IsJsonString(s) ==
    /\ Len(s) >= 2
    /\ s[1] = "\"" /\ s[Len(s)] = "\""
    /\ PlainJsonChars(SubSeq(s, 2, Len(s) - 1))

ObjectPrefix(key) == <<"{">> \o JsonQuoted(KeyChars(key)) \o <<":", " ">>

\* The keys k for which s is the object {"k": "<text>"}
JsonObjectKeys(s) ==
    {k \in Keys :
        /\ StartsWith(s, ObjectPrefix(k))
        /\ s[Len(s)] = "}"
        /\ IsJsonString(SubSeq(s, Len(ObjectPrefix(k)) + 1, Len(s) - 1))}

\* json.loads(s): [ok |-> TRUE, value |-> the decoded value], or ok = FALSE when
\* json.loads raises
json_loads(s) ==
    IF s # <<>> /\ \A i \in 1..Len(s) : s[i] \in Digits
        THEN [ok |-> TRUE, value |-> PyInt]
    ELSE IF s = <<"n","u","l","l">>
        THEN [ok |-> TRUE, value |-> PyNone]
    ELSE IF s = <<"[","]">>
        THEN [ok |-> TRUE, value |-> PyList]
    ELSE IF s = <<"{","}">>
        THEN [ok |-> TRUE, value |-> PyDict(<<>>)]
    ELSE IF IsJsonString(s)
        THEN [ok |-> TRUE, value |-> PyStr(SubSeq(s, 2, Len(s) - 1))]
    ELSE IF JsonObjectKeys(s) # {}
        THEN LET k == CHOOSE key \in JsonObjectKeys(s) : TRUE
                 from == Len(ObjectPrefix(k)) + 2
             IN  [ok |-> TRUE,
                  value |-> PyDict(<< <<k, SubSeq(s, from, Len(s) - 2)>> >>)]
    ELSE [ok |-> FALSE, value |-> PyNone]

(***************************************************************************)
(* The tool table and the texts the code builds.                           *)
(***************************************************************************)
\* tool_map = {tool.name: tool for tool in tools}, tools = [PythonREPLTool()]
tool_map == {"Python_REPL"}

NoResponseText == <<"No response generated.">>

LlmErrorPrefix == <<"Error calling LLM: ">>

HintPrefix == <<"\n\nHINT: The output above might not show the actual value. ">>

LoopHint ==
    <<"You've run similar code before. Make sure the last line uses print() to display the result.">>

\* f"Your last line '{last_line}' needs print() to show output. Change it to: print({last_line})"
VariableHint(last_line) ==
    <<"Your last line '">> \o last_line
    \o <<"' needs print() to show output. Change it to: print(">> \o last_line \o <<")">>

MaxIterationsText == <<"Maximum iterations reached.">>

\* f"Maximum iterations reached. The code needs print() to display results.{hint}"
TipOutput(last_line) ==
    MaxIterationsText \o <<" The code needs print() to display results.">>
    \o <<"\n\nTIP: The code was missing print() on the last line. Try adding: print(">>
    \o last_line \o <<")">>

PlainMaxOutput ==
    MaxIterationsText \o <<" Please check if the code is using print() to display results.">>

\* f"Error: {str(e)}\n{traceback.format_exc()}"
ErrorStr(msg) == <<"Error: ">> \o msg \o <<"\n", "Traceback (most recent call last): ...">>

(***************************************************************************)
(* Messages of the conversation.                                           *)
(***************************************************************************)
NoId == <<>>

SystemMessage ==
    [role |-> "system", content |-> <<"You are an expert Cambridge A-Level Math Tutor. ...">>,
     tool_calls |-> <<>>, tool_call_id |-> NoId]

HumanMessage(text) ==
    [role |-> "human", content |-> text, tool_calls |-> <<>>, tool_call_id |-> NoId]

AIMessage(resp) ==
    [role |-> "ai", content |-> resp.content, tool_calls |-> resp.tool_calls,
     tool_call_id |-> NoId]

ToolMessage(content, tool_call_id) ==
    [role |-> "tool", content |-> content, tool_calls |-> <<>>,
     tool_call_id |-> tool_call_id]

\* prompt.invoke(input_dict).to_messages(): the system text and ("human", "{input}")
PromptMessages(d) == <<SystemMessage, HumanMessage(d.input)>>

(***************************************************************************)
(* Tool dispatch: the body of "for tool_call in tool_calls".               *)
(***************************************************************************)
\* if isinstance(tool_args, str): json.loads, and on failure {"query": tool_args}
DecodeArgs(tool_args) ==
    IF tool_args.t = "str"
    THEN IF json_loads(tool_args.s).ok
         THEN json_loads(tool_args.s).value
         ELSE PyDict(<< <<"query", tool_args.s>> >>)
    ELSE tool_args

\* The decoded arguments are no mapping: "'query' not in tool_args" or
\* tool_args.get raises inside the try, and tool_args.get raises again in the
\* except block.
ArgsRaise(tool_args) == tool_args.t # "dict"

\* if not tool_args or 'query' not in tool_args: tool_args = {"query": code}
QueryArgsInputFirst(tool_args) ==
    IF tool_args.items = <<>> \/ ~HasKey(tool_args, "query")
    THEN PyDict(<< <<"query",
                     DictGet(tool_args, "input",
                             DictGet(tool_args, "code", StrOfDict(tool_args)))>> >>)
    ELSE tool_args

QueryArgs(tool_args) ==
    IF tool_args.items = <<>> \/ ~HasKey(tool_args, "query")
    THEN PyDict(<< <<"query",
                     DictGet(tool_args, "code",
                             DictGet(tool_args, "input", StrOfDict(tool_args)))>> >>)
    ELSE tool_args

\* code_input = tool_args.get('query', str(tool_args))
CodeInput(tool_args) ==
    DictGet(QueryArgs(tool_args), "query", StrOfDict(QueryArgs(tool_args)))

\* seq[-n:]
LastN(seq, n) ==
    SubSeq(seq, IF Len(seq) > n THEN Len(seq) - n + 1 ELSE 1, Len(seq))

\* is_loop = code_input in previous_codes[-2:]
IsLoopLastOnly(code_input, codes) ==
    codes # <<>> /\ codes[Len(codes)] = code_input

IsLoop(code_input, codes) ==
    \E i \in 1..Len(LastN(codes, LoopWindow)) : LastN(codes, LoopWindow)[i] = code_input

\* previous_codes.append(code_input); if len(previous_codes) > 5: previous_codes.pop(0)
PushCodeNoEvict(codes, code_input) == Append(codes, code_input)

PushCode(codes, code_input) ==
    IF Len(codes) + 1 > MaxPreviousCodes
    THEN Tail(Append(codes, code_input))
    ELSE Append(codes, code_input)

\* missing_print = 'print(' not in code_input and iteration > 1
MissingPrint(code_input, iter) == ~HasPrint(code_input) /\ iter > 1

\* The feedback added to result_str ("" when none is added)
FeedbackPrintOnly(code_input, codes, iter) ==
    LET last_line == LastLine(code_input)
    IN  IF MissingPrint(code_input, iter) /\ IsVariableLine(last_line)
        THEN HintPrefix \o VariableHint(last_line)
        ELSE <<>>

Feedback(code_input, codes, iter) ==
    LET last_line == LastLine(code_input)
        is_loop == IsLoop(code_input, codes)
    IN  IF is_loop \/ (MissingPrint(code_input, iter) /\ IsVariableLine(last_line))
        THEN HintPrefix \o
             (IF IsVariableLine(last_line) THEN VariableHint(last_line)
              ELSE IF is_loop THEN LoopHint
              ELSE <<>>)
        ELSE <<>>

\* (type('Action', (), {'tool_input': code_input})(), observation)
Step(code_input, observation) == [tool_input |-> code_input, observation |-> observation]

\* intermediate_steps.append((action, observation)), on both paths of the try
RecordStepSkipErrors(steps, code_input, observation) ==
    IF StartsWith(observation, <<"Error: ">>) THEN steps
    ELSE Append(steps, Step(code_input, observation))

RecordStep(steps, code_input, observation) ==
    Append(steps, Step(code_input, observation))

(***************************************************************************)
(* tool_map[tool_name].invoke: PythonREPLTool() is built without arguments *)
(* and runs the code it is given, line by line, in globals that live as    *)
(* long as the tool.  Of a line, "import a.b" binds a and "name = value"   *)
(* binds name.                                                             *)
(***************************************************************************)
\* code.split('\n')
RECURSIVE SplitLines(_)
SplitLines(code) ==
    LET nl == {i \in 1..Len(code) : code[i] = "\n"}
    IN  IF nl = {} THEN <<code>>
        ELSE LET first == CHOOSE i \in nl : \A j \in nl : i <= j
             IN  <<SubSeq(code, 1, first - 1)>>
                 \o SplitLines(SubSeq(code, first + 1, Len(code)))

\* The text of s before the first of the characters in stops
Before(s, stops) ==
    LET at == {i \in 1..Len(s) : s[i] \in stops}
    IN  IF at = {} THEN s
        ELSE SubSeq(s, 1, (CHOOSE i \in at : \A j \in at : i <= j) - 1)

ImportKeyword == <<"i","m","p","o","r","t"," ">>

\* The root name of the module a line imports, <<>> when it imports none
ImportRoot(line) ==
    IF StartsWith(Strip(line), ImportKeyword)
    THEN Before(Strip(SubSeq(Strip(line), Len(ImportKeyword) + 1, Len(Strip(line)))),
                {".", " ", ","})
    ELSE <<>>

\* The name a line assigns, <<>> when it assigns none
AssignedName(line) ==
    IF Contains(line, <<"=">>) /\ IsAlnum(Strip(Before(line, {"="})))
    THEN Strip(Before(line, {"="}))
    ELSE <<>>

\* The root names of the modules that the lines of a code import
ImportRoots(code) ==
    {ImportRoot(SplitLines(code)[i]) : i \in 1..Len(SplitLines(code))} \ {<<>>}

\* The globals after the code ran
Exec(code, globals) ==
    globals
    \cup ImportRoots(code)
    \cup ({AssignedName(SplitLines(code)[i]) : i \in 1..Len(SplitLines(code))} \ {<<>>})

\* The observation of a step of a returned execution: str(result), not result_str
ObservationAnnotated(output, result_str) == result_str

Observation(output, result_str) == output

(***************************************************************************)
(* The scripted collaborators.  The model client answers its first request *)
(* with script[1] and every later one with script[2], unless it fails or   *)
(* gives a final answer; each scripted tool call says what the tool does   *)
(* when it is run with it.                                                 *)
(***************************************************************************)
CodePrint == <<"p","r","i","n","t","(","x",")">>
CodeVar == <<"x">>
CodeAssign == <<"x","=","1">>
CodeCall == <<"f","(","x",")">>

Contents == {<<>>, <<"Let me run that.">>}

Returns(text) == [raises |-> FALSE, text |-> text]
Raises(msg) == [raises |-> TRUE, text |-> msg]

Call(name, args, outcome) == [name |-> name, args |-> args, outcome |-> outcome]

Query(code) == PyDict(<< <<"query", code>> >>)

ToolCallChoices ==
    {Call("Python_REPL", Query(c), Returns(<<"4">>)) : c \in {CodePrint, CodeVar, CodeAssign}}
    \cup {Call("Python_REPL", Query(CodePrint), Raises(<<"boom">>)),
          Call("calculator", Query(CodePrint), Returns(<<"4">>)),
          Call("Python_REPL", PyStr(CodeVar), Returns(<<"4">>)),
          Call("Python_REPL", PyStr(<<"5">>), Returns(<<"4">>))}

\* The sequences of 1..MaxCalls tool calls over a palette of calls
CallSeqs(palette) == UNION {[1..n -> palette] : n \in 1..MaxCalls}

NoResponse == [content |-> <<>>, tool_calls |-> <<>>]

NoResult == [kind |-> "none", output |-> <<>>, intermediate_steps |-> <<>>]

Returned(output, steps) ==
    [kind |-> "return", output |-> output, intermediate_steps |-> steps]

\* An exception leaves agent_chain
Raised == [kind |-> "raise", output |-> <<>>, intermediate_steps |-> <<>>]

\* The scripted response to the next request
Scripted == script[IF llm_requests = 0 THEN 1 ELSE 2]

\* response.tool_calls of the scripted response: each call with a fresh id
ScriptedResponse ==
    [content |-> Scripted.content,
     tool_calls |-> [k \in 1..Len(Scripted.calls) |->
                        [id |-> <<llm_requests + 1, k>>,
                         name |-> Scripted.calls[k].name,
                         args |-> Scripted.calls[k].args]]]

\* What the tool does with the call being dispatched
Outcome == script[IF llm_requests = 1 THEN 1 ELSE 2].calls[tc_index].outcome

(***************************************************************************)
(* agent_chain                                                             *)
(***************************************************************************)
InitLoop ==
    /\ messages = PromptMessages(input_dict)
    /\ intermediate_steps = <<>>
    /\ bindings = {}
    /\ previous_codes = <<>>
    /\ iteration = 0
    /\ response = NoResponse
    /\ tc_index = 0
    /\ pc = "AWAIT_MODEL"
    /\ result = NoResult
    /\ llm_requests = 0
    /\ tool_runs = 0

InitRun ==
    /\ input_dict = [input |-> <<"Solve x">>, conversation_history |-> <<>>]
    /\ InitLoop

(***************************************************************************)
(* app.py: the chat page.  Every browser session runs the script in its    *)
(* own thread of the one server process and keeps its own session state;   *)
(* graph.png is one file of the process's working directory.               *)
(***************************************************************************)
Sessions == {"A", "B"}

\* The plot that the run for a session's n-th prompt wrote
Plot(session, n) == [session |-> session, prompt |-> n]

\* No file at the path; image_data = None
NoFile == [session |-> "none", prompt |-> 0]

\* if "messages" not in st.session_state: st.session_state.messages = []
InitChat ==
    /\ graph_png = NoFile
    /\ st_messages = [s \in Sessions |-> <<>>]
    /\ image_data = [s \in Sessions |-> NoFile]
    /\ displayed = [s \in Sessions |-> {}]
    /\ prompts = [s \in Sessions |-> 0]
    /\ ui_pc = [s \in Sessions |-> "IDLE"]

Init ==
    /\ \E a, b \in ToolCallChoices, content \in Contents :
         \E first, later \in CallSeqs({a, b}) :
            script = <<[content |-> content, calls |-> first],
                       [content |-> content, calls |-> later]>>
    /\ InitRun
    /\ InitChat

Running == result.kind = "none"

\* {"output": f"Error calling LLM: {str(e)}", "intermediate_steps": intermediate_steps}
LlmErrorResultNoSteps(msg, steps) == Returned(LlmErrorPrefix \o msg, <<>>)

LlmErrorResult(msg, steps) == Returned(LlmErrorPrefix \o msg, steps)

\* llm_with_tools.invoke raises: return "Error calling LLM: ..."
LLMFails ==
    /\ Running /\ pc = "AWAIT_MODEL"
    /\ llm_requests' = llm_requests + 1
    /\ pc' = "DONE"
    /\ result' = LlmErrorResult(<<"connection error">>, intermediate_steps)
    /\ UNCHANGED <<uivars, bindings, script, input_dict, messages, intermediate_steps, previous_codes,
                   iteration, response, tc_index, tool_runs>>

\* if not tool_calls: return response.content or "No response generated."
FinalOutputRaw(content) == content

FinalOutput(content) == IF content # <<>> THEN content ELSE NoResponseText

\* The response carries no tool calls
LLMFinal ==
    /\ Running /\ pc = "AWAIT_MODEL"
    /\ \E content \in Contents :
         /\ response' = [content |-> content, tool_calls |-> <<>>]
         /\ result' = Returned(FinalOutput(content), intermediate_steps)
    /\ llm_requests' = llm_requests + 1
    /\ pc' = "DONE"
    /\ UNCHANGED <<uivars, bindings, script, input_dict, messages, intermediate_steps, previous_codes,
                   iteration, tc_index, tool_runs>>

\* messages.append(response), before the tool calls are executed
SkipAppendResponse(msgs, resp) == msgs

AppendResponse(msgs, resp) == Append(msgs, AIMessage(resp))

\* The response carries tool calls: messages.append(response)
LLMToolCalls ==
    /\ Running /\ pc = "AWAIT_MODEL"
    /\ response' = ScriptedResponse
    /\ messages' = AppendResponse(messages, ScriptedResponse)
    /\ llm_requests' = llm_requests + 1
    /\ tc_index' = 1
    /\ pc' = "DISPATCH_TOOLS"
    /\ UNCHANGED <<uivars, bindings, script, input_dict, intermediate_steps, previous_codes, iteration,
                   result, tool_runs>>

Dispatching ==
    /\ Running /\ pc = "DISPATCH_TOOLS"
    /\ tc_index <= Len(response.tool_calls)

tool_call == response.tool_calls[tc_index]

\* if tool_name in tool_map
KnownTool(name) == name \in tool_map

\* tool_name is not in tool_map: the call is passed over
DispatchUnknownTool ==
    /\ Dispatching
    /\ ~KnownTool(tool_call.name)
    /\ tc_index' = tc_index + 1
    /\ UNCHANGED <<uivars, bindings, script, input_dict, messages, intermediate_steps, previous_codes,
                   iteration, response, pc, result, llm_requests, tool_runs>>

\* The decoded arguments are no mapping: the except block appends the error
\* message and then raises itself
DispatchMalformed ==
    /\ Dispatching
    /\ KnownTool(tool_call.name)
    /\ ArgsRaise(DecodeArgs(tool_call.args))
    /\ messages' = Append(messages,
                          ToolMessage(ErrorStr(<<"'int' object has no attribute 'get'">>),
                                      tool_call.id))
    /\ result' = Raised
    /\ UNCHANGED <<uivars, bindings, script, input_dict, intermediate_steps, previous_codes, iteration,
                   response, tc_index, pc, llm_requests, tool_runs>>

\* The tool runs and returns
DispatchToolReturns ==
    /\ Dispatching
    /\ KnownTool(tool_call.name)
    /\ ~ArgsRaise(DecodeArgs(tool_call.args))
    /\ ~Outcome.raises
    /\ LET code_input == CodeInput(DecodeArgs(tool_call.args))
           result_str == Outcome.text \o Feedback(code_input, previous_codes, iteration)
       IN  /\ previous_codes' = PushCode(previous_codes, code_input)
           /\ messages' = Append(messages, ToolMessage(result_str, tool_call.id))
           /\ intermediate_steps' =
                 RecordStep(intermediate_steps, code_input,
                            Observation(Outcome.text, result_str))
           /\ bindings' = Exec(code_input, bindings)
    /\ tool_runs' = tool_runs + 1
    /\ tc_index' = tc_index + 1
    /\ UNCHANGED <<uivars, script, input_dict, iteration, response, pc, result,
                   llm_requests>>

\* The tool raises: the except block records the error
DispatchToolRaises ==
    /\ Dispatching
    /\ KnownTool(tool_call.name)
    /\ ~ArgsRaise(DecodeArgs(tool_call.args))
    /\ Outcome.raises
    /\ LET code_input == CodeInput(DecodeArgs(tool_call.args))
           error_str == ErrorStr(Outcome.text)
       IN  /\ previous_codes' = PushCode(previous_codes, code_input)
           /\ messages' = Append(messages, ToolMessage(error_str, tool_call.id))
           /\ intermediate_steps' = RecordStep(intermediate_steps, code_input, error_str)
    /\ tool_runs' = tool_runs + 1
    /\ tc_index' = tc_index + 1
    /\ UNCHANGED <<uivars, bindings, script, input_dict, iteration, response, pc, result, llm_requests>>

\* for iteration in range(max_iterations): another round after `done` rounds
BudgetRemainsOffByOne(done) == done <= max_iterations

BudgetRemains(done) == done < max_iterations

\* The inner for loop is over: the next value of range(max_iterations), if any
EndRound ==
    /\ Running /\ pc = "DISPATCH_TOOLS"
    /\ tc_index > Len(response.tool_calls)
    /\ iteration' = iteration + 1
    /\ pc' = IF BudgetRemains(iteration + 1) THEN "AWAIT_MODEL" ELSE "EXHAUSTED"
    /\ UNCHANGED <<uivars, bindings, script, input_dict, messages, intermediate_steps, previous_codes,
                   response, tc_index, result, llm_requests, tool_runs>>

\* last_code = previous_codes[-1] if previous_codes else ""
LastCode(codes) == IF codes = <<>> THEN <<>> ELSE codes[Len(codes)]

\* The first branch of "if last_code and 'print(' not in last_code"
NeedsPrint(last_code) == last_code # <<>> /\ ~HasPrint(last_code)

\* "if last_line and not last_line.startswith('#') and '=' not in last_line"
TipLine(last_line) ==
    /\ last_line # <<>>
    /\ ~StartsWith(last_line, <<"#">>)
    /\ ~Contains(last_line, <<"=">>)

\* final_output is assigned on the path taken after the loop
FinalOutputBound(last_code) ==
    NeedsPrint(last_code) => TipLine(LastLine(last_code))

\* final_output, where it is assigned
ExhaustedOutput(last_code) ==
    IF NeedsPrint(last_code) THEN TipOutput(LastLine(last_code)) ELSE PlainMaxOutput

\* The code after the loop returns
ReturnExhausted ==
    /\ Running /\ pc = "EXHAUSTED"
    /\ response.content # <<>> \/ FinalOutputBound(LastCode(previous_codes))
    /\ result' = Returned(IF response.content # <<>> THEN response.content
                          ELSE ExhaustedOutput(LastCode(previous_codes)),
                          intermediate_steps)
    /\ UNCHANGED <<uivars, bindings, script, input_dict, messages, intermediate_steps, previous_codes,
                   iteration, response, tc_index, pc, llm_requests, tool_runs>>

\* The code after the loop reads final_output, which was never assigned
RaiseExhausted ==
    /\ Running /\ pc = "EXHAUSTED"
    /\ response.content = <<>> /\ ~FinalOutputBound(LastCode(previous_codes))
    /\ result' = Raised
    /\ UNCHANGED <<uivars, bindings, script, input_dict, messages, intermediate_steps, previous_codes,
                   iteration, response, tc_index, pc, llm_requests, tool_runs>>

Next ==
    \/ LLMFails
    \/ LLMFinal
    \/ LLMToolCalls
    \/ DispatchUnknownTool
    \/ DispatchMalformed
    \/ DispatchToolReturns
    \/ DispatchToolRaises
    \/ EndRound
    \/ ReturnExhausted
    \/ RaiseExhausted

Spec == Init /\ [][Next]_vars

(***************************************************************************)
(* Runs over the shapes of arguments, the codes of a session and the prior *)
(* turns a caller passes: the model client sends the same single tool call *)
(* in every round.                                                         *)
(***************************************************************************)
MaxArgKeys == 3
MaxHistory == 2

CodeImportOs == <<"i","m","p","o","r","t"," ","o","s">>
CodeAssignImportOs == <<"y","=","2","\n","i","m","p","o","r","t"," ","o","s",".","p","a","t","h">>
CodeImportNumpy == <<"i","m","p","o","r","t"," ","n","u","m","p","y">>

SessionCodes == {CodeAssign, CodeImportOs, CodeAssignImportOs, CodeImportNumpy}

\* The text a field of the arguments holds
ArgValue(key) ==
    CASE key = "query" -> CodePrint
      [] key = "code" -> CodeCall
      [] key = "input" -> CodeVar
      [] OTHER -> CodeAssign

\* The orders of up to MaxArgKeys different keys
KeySeqs ==
    {ks \in UNION {[1..n -> Keys] : n \in 0..MaxArgKeys} :
        \A i, j \in 1..Len(ks) : i # j => ks[i] # ks[j]}

DictOf(ks) == PyDict([i \in 1..Len(ks) |-> <<ks[i], ArgValue(ks[i])>>])

\* tool_call["args"]: a dict, a JSON text of a dict, a JSON text of something
\* else, a text that is no JSON
ArgShapes ==
    {DictOf(ks) : ks \in KeySeqs}
    \cup {PyStr(JsonObject(k, ArgValue(k))) : k \in Keys}
    \cup {PyStr(c) : c \in {CodeVar, CodeImportOs, <<"{","}">>, <<"5">>, <<"[","]">>}}
    \cup {Query(c) : c \in SessionCodes}

\* The turns before the current one, as main.py and app.py keep them
PriorTurns ==
    <<[role |-> "user", content |-> <<"What is 2+2?">>],
      [role |-> "assistant", content |-> <<"4">>],
      [role |-> "user", content |-> <<"And 3+3?">>]>>

\* conversation_history: the first turns, up to MaxHistory of them
Histories == {SubSeq(PriorTurns, 1, n) : n \in 0..MaxHistory}

InitArgs ==
    /\ \E args \in ArgShapes, name \in {"Python_REPL", "calculator"},
          outcome \in {Returns(<<"4">>), Raises(<<"boom">>)}, content \in Contents :
         script = <<[content |-> content, calls |-> <<Call(name, args, outcome)>>],
                    [content |-> content, calls |-> <<Call(name, args, outcome)>>]>>
    /\ \E history \in Histories :
         input_dict = [input |-> <<"Solve x">>, conversation_history |-> history]
    /\ InitLoop
    /\ InitChat

SpecArgs == InitArgs /\ [][Next]_vars

(***************************************************************************)
(* process_and_display, step by step, for the browser sessions of one      *)
(* server process.  The agent run of a prompt is what it does to the page: *)
(* its code may write graph.png, and it returns or raises.                 *)
(***************************************************************************)
MaxPrompts == 2

UserMessage(n) == [role |-> "user", prompt |-> n, image |-> NoFile]

\* msg_data, with msg_data["image"] = image_data when there is one
AssistantMessage(n, image) == [role |-> "assistant", prompt |-> n, image |-> image]

\* st.session_state.messages.append({"role": "user", ...}), then agent.invoke starts
Submit(s) ==
    /\ ui_pc[s] = "IDLE"
    /\ prompts[s] < MaxPrompts
    /\ prompts' = [prompts EXCEPT ![s] = @ + 1]
    /\ st_messages' = [st_messages EXCEPT ![s] = Append(@, UserMessage(prompts[s] + 1))]
    /\ ui_pc' = [ui_pc EXCEPT ![s] = "INVOKE"]
    /\ UNCHANGED <<agentvars, graph_png, image_data, displayed>>

\* During agent.invoke the code the tool runs saves a figure as graph.png
PlotWritten(s) ==
    /\ ui_pc[s] = "INVOKE"
    /\ graph_png' = Plot(s, prompts[s])
    /\ UNCHANGED <<agentvars, st_messages, image_data, displayed, prompts, ui_pc>>

\* agent.invoke returns: the steps and the answer are shown
InvokeReturns(s) ==
    /\ ui_pc[s] = "INVOKE"
    /\ ui_pc' = [ui_pc EXCEPT ![s] = "CHECK_GRAPH"]
    /\ UNCHANGED <<agentvars, graph_png, st_messages, image_data, displayed, prompts>>

\* agent.invoke raises: except Exception as e: st.error(...)
InvokeRaises(s) ==
    /\ ui_pc[s] = "INVOKE"
    /\ ui_pc' = [ui_pc EXCEPT ![s] = "IDLE"]
    /\ UNCHANGED <<agentvars, graph_png, st_messages, image_data, displayed, prompts>>

\* image_data = None; if os.path.exists("graph.png")
CheckGraph(s) ==
    /\ ui_pc[s] = "CHECK_GRAPH"
    /\ image_data' = [image_data EXCEPT ![s] = NoFile]
    /\ ui_pc' = [ui_pc EXCEPT ![s] = IF graph_png # NoFile THEN "SHOW" ELSE "SAVE"]
    /\ UNCHANGED <<agentvars, graph_png, st_messages, displayed, prompts>>

\* st.image("graph.png", caption="Generated Plot")
ShowImage(s) ==
    /\ ui_pc[s] = "SHOW"
    /\ graph_png # NoFile
    /\ displayed' = [displayed EXCEPT ![s] = @ \cup {graph_png}]
    /\ ui_pc' = [ui_pc EXCEPT ![s] = "READ"]
    /\ UNCHANGED <<agentvars, graph_png, st_messages, image_data, prompts>>

\* with open("graph.png", "rb") as img_file: image_data = base64.b64encode(...)
ReadImage(s) ==
    /\ ui_pc[s] = "READ"
    /\ graph_png # NoFile
    /\ image_data' = [image_data EXCEPT ![s] = graph_png]
    /\ ui_pc' = [ui_pc EXCEPT ![s] = "REMOVE"]
    /\ UNCHANGED <<agentvars, graph_png, st_messages, displayed, prompts>>

\* os.remove("graph.png")
RemoveGraph(s) ==
    /\ ui_pc[s] = "REMOVE"
    /\ graph_png # NoFile
    /\ graph_png' = NoFile
    /\ ui_pc' = [ui_pc EXCEPT ![s] = "SAVE"]
    /\ UNCHANGED <<agentvars, st_messages, image_data, displayed, prompts>>

\* The file is gone when st.image, open or os.remove reaches for it: the call
\* raises and the except clause shows the error
FileMissing(s) ==
    /\ ui_pc[s] \in {"SHOW", "READ", "REMOVE"}
    /\ graph_png = NoFile
    /\ ui_pc' = [ui_pc EXCEPT ![s] = "IDLE"]
    /\ UNCHANGED <<agentvars, graph_png, st_messages, image_data, displayed, prompts>>

\* st.session_state.messages.append(msg_data)
SaveHistory(s) ==
    /\ ui_pc[s] = "SAVE"
    /\ st_messages' = [st_messages EXCEPT
                          ![s] = Append(@, AssistantMessage(prompts[s], image_data[s]))]
    /\ ui_pc' = [ui_pc EXCEPT ![s] = "IDLE"]
    /\ UNCHANGED <<agentvars, graph_png, image_data, displayed, prompts>>

NextUI ==
    \E s \in Sessions :
        \/ Submit(s)
        \/ PlotWritten(s)
        \/ InvokeReturns(s)
        \/ InvokeRaises(s)
        \/ CheckGraph(s)
        \/ ShowImage(s)
        \/ ReadImage(s)
        \/ RemoveGraph(s)
        \/ FileMissing(s)
        \/ SaveHistory(s)

\* The agent of the page stands ready: st.session_state.agent = get_math_agent()
InitUI ==
    /\ script = <<[content |-> <<>>, calls |-> <<>>], [content |-> <<>>, calls |-> <<>>]>>
    /\ InitRun
    /\ InitChat

SpecUI == InitUI /\ [][NextUI]_vars

(***************************************************************************)
(* What the properties read off a state.                                   *)
(***************************************************************************)
\* invoke is over: it returned or an exception left it
Ended == result.kind # "none"

\* The run ended on a failure of the model client
LlmFailed == result.kind = "return" /\ StartsWith(result.output, LlmErrorPrefix)

\* The run ended on a response without tool calls
FinalAnswered == pc = "DONE" /\ result.kind = "return" /\ ~LlmFailed

\* The run ended after the loop ran out
ExhaustedReturned == pc = "EXHAUSTED" /\ result.kind = "return"

IsTool(m) == m.role = "tool"

IsAI(m) == m.role = "ai"

\* The tool messages of the conversation, in order
ToolMsgs == SelectSeq(messages, IsTool)

\* The assistant messages of the conversation, in order
AIMsgs == SelectSeq(messages, IsAI)

RECURSIVE CountCalls(_)
CountCalls(ms) ==
    IF ms = <<>> THEN 0 ELSE Len(Head(ms).tool_calls) + CountCalls(Tail(ms))

\* The tool calls the model issued in the run
TotalToolCalls == CountCalls(AIMsgs)

\* The positions of the tool messages that carry an id
Answers(id) == {i \in 1..Len(messages) : IsTool(messages[i]) /\ messages[i].tool_call_id = id}

\* A text carries the advisory annotation
HasAdvisory(content) == Contains(content, HintPrefix)

\* A recorded observation is the error text of a faulted execution
Faulted(step) == StartsWith(step.observation, <<"Error: ">>)

(***************************************************************************)
(* C1                                                                      *)
(***************************************************************************)
\* C1 (as claimed): the run never ends with an exception; in particular, after
\* max_iterations rounds of tool calls whose last assistant content is empty,
\* invoke returns a result with a non-empty output.
C1_ReturnsAtCeiling ==
    (pc = "EXHAUSTED" /\ response.content = <<>> /\ Ended)
        => (result.kind = "return" /\ result.output # <<>>)

(***************************************************************************)
(* C2                                                                      *)
(***************************************************************************)
\* C2: the model client is requested at most max_iterations times; a request is
\* made only while fewer than max_iterations rounds are complete, each round
\* counts once, after its dispatch, and after the last round the run is in
\* EXHAUSTED with exactly max_iterations requests made.
C2_RequestsBounded ==
    /\ llm_requests <= max_iterations
    /\ pc = "AWAIT_MODEL" => (iteration < max_iterations /\ llm_requests = iteration)
    /\ pc = "DISPATCH_TOOLS" => llm_requests = iteration + 1
    /\ pc = "EXHAUSTED" => (iteration = max_iterations /\ llm_requests = max_iterations)
    /\ iteration >= max_iterations => pc = "EXHAUSTED"

C2_Witness ==
    /\ ExhaustedReturned
    /\ llm_requests = max_iterations
    /\ Len(AIMsgs) = max_iterations

(***************************************************************************)
(* C3                                                                      *)
(***************************************************************************)
\* C3 (as claimed): a response without tool calls ends the run in DONE with the
\* message's content as the final text and an empty list of steps.
C3_ContentAndNoSteps ==
    FinalAnswered =>
        (result.output = response.content /\ result.intermediate_steps = <<>>)

\* C3 (amended): a response without tool calls ends the run in DONE at once (no
\* message is appended for it, the round is not counted); the final text is the
\* message's content, or "No response generated." when the content is empty, and
\* the steps returned are those recorded in the earlier rounds: none when it is
\* the first response.
C3_ContentOrPlaceholder ==
    FinalAnswered =>
        /\ response.tool_calls = <<>>
        /\ result.output =
              (IF response.content # <<>> THEN response.content ELSE NoResponseText)
        /\ result.output # <<>>
        /\ result.intermediate_steps = intermediate_steps
        /\ llm_requests = 1 => result.intermediate_steps = <<>>
        /\ llm_requests = iteration + 1
        /\ Len(AIMsgs) = iteration

C3_Witness ==
    /\ FinalAnswered
    /\ response.content = <<>>
    /\ result.intermediate_steps # <<>>

(***************************************************************************)
(* C4                                                                      *)
(***************************************************************************)
\* The last assistant message before position i (0 when there is none)
LastAIBefore(i) ==
    LET before == {j \in 1..(i - 1) : IsAI(messages[j])}
    IN  IF before = {} THEN 0 ELSE CHOOSE j \in before : \A k \in before : j >= k

CallIds(m) == {m.tool_calls[k].id : k \in 1..Len(m.tool_calls)}

ToolMessagesLinked ==
    \A i \in 1..Len(messages) :
        IsTool(messages[i]) =>
            /\ LastAIBefore(i) # 0
            /\ messages[i].tool_call_id \in CallIds(messages[LastAIBefore(i)])

AppendOnly ==
    /\ Len(messages') >= Len(messages)
    /\ SubSeq(messages', 1, Len(messages)) = messages

\* C4: every tool message comes after an assistant message and carries the id of
\* a tool call of the most recent assistant message before it, and the
\* conversation only grows at its end.
C4_ToolAfterAssistant == [](ToolMessagesLinked) /\ [][AppendOnly]_vars

C4_Witness ==
    /\ Len(AIMsgs) >= 2
    /\ Len(ToolMsgs) >= 3
    /\ IsTool(messages[Len(messages)])

(***************************************************************************)
(* C5                                                                      *)
(***************************************************************************)
\* C5 (as claimed): at every model request after the first, every tool call of
\* every assistant message is answered by exactly one tool message with its id,
\* and the answers to the calls of one message stand in the order of the calls.
C5_EveryCallAnswered ==
    (pc = "AWAIT_MODEL" /\ llm_requests >= 1) =>
        \A j \in 1..Len(AIMsgs) :
            LET calls == AIMsgs[j].tool_calls
            IN  /\ \A k \in 1..Len(calls) : Cardinality(Answers(calls[k].id)) = 1
                /\ \A k1, k2 \in 1..Len(calls) :
                       k1 < k2 =>
                           \A a1 \in Answers(calls[k1].id), a2 \in Answers(calls[k2].id) :
                               a1 < a2

(***************************************************************************)
(* C6                                                                      *)
(***************************************************************************)
\* C6 (as claimed): a run that returns after max_iterations rounds of tool calls
\* returns as many steps as the model issued tool calls.
C6_StepsCountCalls ==
    ExhaustedReturned => Len(result.intermediate_steps) = TotalToolCalls

(***************************************************************************)
(* C7                                                                      *)
(***************************************************************************)
\* C7 (as claimed): the final output of a run that ends in EXHAUSTED says that
\* the maximum of iterations was reached.
C7_OutputStatesCeiling ==
    ExhaustedReturned => Contains(result.output, MaxIterationsText)

(***************************************************************************)
(* C8                                                                      *)
(***************************************************************************)
\* C8: a failed model request ends the run in DONE with the error-wrapped output
\* and the steps recorded so far; the failed request is the last one (one request
\* per completed round and the failed one), every tool run made belongs to a
\* completed round, and nothing is requested, run or appended afterwards.
C8_FailureEndsRun ==
    /\ [](LlmFailed =>
            /\ pc = "DONE"
            /\ result.intermediate_steps = intermediate_steps
            /\ llm_requests = iteration + 1
            /\ Len(AIMsgs) = iteration
            /\ tc_index = 0 \/ tc_index > Len(response.tool_calls))
    /\ [][LlmFailed => UNCHANGED <<llm_requests, tool_runs, messages, result>>]_vars

C8_Witness ==
    /\ LlmFailed
    /\ iteration >= 2
    /\ result.intermediate_steps # <<>>

(***************************************************************************)
(* C9                                                                      *)
(***************************************************************************)
\* C9 (as claimed): whatever the shape of a tool call's arguments, its dispatch
\* raises nothing: the run is never ended by an exception while tool calls are
\* dispatched.
C9_DispatchNeverRaises ==
    pc = "DISPATCH_TOOLS" => result.kind # "raise"

(***************************************************************************)
(* C10                                                                     *)
(***************************************************************************)
\* Steps i, i+1 and i+2 are three consecutive executions of the same code.  The
\* i-th tool message of the conversation is the one appended with the i-th step.
SameCodeRun(i) ==
    /\ i + 2 <= Len(intermediate_steps)
    /\ intermediate_steps[i + 1].tool_input = intermediate_steps[i].tool_input
    /\ intermediate_steps[i + 2].tool_input = intermediate_steps[i].tool_input

Annotated(i) == HasAdvisory(ToolMsgs[i].content)

\* The code of step i is the code of one of the two steps before it
SubmittedJustBefore(i) ==
    \E j \in (i - 2)..(i - 1) :
        /\ j >= 1
        /\ intermediate_steps[j].tool_input = intermediate_steps[i].tool_input

\* Step i ran in the third round or later, without print( and with a bare name
\* as its last line
PrintHintDue(i) ==
    /\ ToolMsgs[i].tool_call_id[1] > 2
    /\ ~HasPrint(intermediate_steps[i].tool_input)
    /\ IsVariableLine(LastLine(intermediate_steps[i].tool_input))

\* C10 (as claimed): of three consecutive executions of the same code, the result
\* of the third carries the advisory annotation and those of the first and the
\* second do not.
C10_OnlyThirdAnnotated ==
    \A i \in 1..Len(intermediate_steps) :
        SameCodeRun(i) =>
            /\ Annotated(i + 2)
            /\ ~Annotated(i + 1)
            /\ ~Annotated(i)

\* C10 (amended): of three consecutive executions of the same code, the results
\* of the second and of the third carry the advisory annotation unless that
\* execution faulted (an error result carries none), and the result of the first
\* carries it exactly when it did not fault and either the same code is one of
\* the two submissions before it or the missing-print hint is due.
C10_SecondAndThirdAnnotated ==
    \A i \in 1..Len(intermediate_steps) :
        SameCodeRun(i) =>
            /\ Annotated(i + 2) <=> ~Faulted(intermediate_steps[i + 2])
            /\ Annotated(i + 1) <=> ~Faulted(intermediate_steps[i + 1])
            /\ Annotated(i) <=>
                  /\ ~Faulted(intermediate_steps[i])
                  /\ SubmittedJustBefore(i) \/ PrintHintDue(i)

\* Three executions of the same code in a row after another one, the first result
\* bare and the next two annotated
C10_Witness ==
    \E i \in 2..Len(intermediate_steps) :
        /\ SameCodeRun(i)
        /\ intermediate_steps[i - 1].tool_input # intermediate_steps[i].tool_input
        /\ ~Annotated(i)
        /\ Annotated(i + 1)
        /\ Annotated(i + 2)

(***************************************************************************)
(* C11                                                                     *)
(***************************************************************************)
\* Some tool result of the run carries the advisory annotation
SomeAnnotated == \E i \in 1..Len(ToolMsgs) : Annotated(i)

\* C11 (as claimed): the annotation changes nothing in the course of the run: a
\* run in which a tool result was annotated goes on through its remaining tool
\* calls and rounds and ends only by a final answer, by a failure of the model
\* client or at the iteration ceiling.
C11_AnnotatedRunEndsThreeWays ==
    (SomeAnnotated /\ Ended) =>
        \/ FinalAnswered
        \/ LlmFailed
        \/ pc = "EXHAUSTED"

(***************************************************************************)
(* C13                                                                     *)
(***************************************************************************)
\* The i-th tool message carries an error text
ErrorMessage(i) == StartsWith(ToolMsgs[i].content, <<"Error: ">>)

\* C13 (as claimed): a fault raised while a tool call is executed becomes data:
\* the error tool message appended for it comes with a step that records the same
\* error text, and no exception ends the run before the loop is over.
C13_FaultBecomesData ==
    /\ \A i \in 1..Len(ToolMsgs) :
           ErrorMessage(i) =>
               /\ i <= Len(intermediate_steps)
               /\ intermediate_steps[i].observation = ToolMsgs[i].content
    /\ pc = "DISPATCH_TOOLS" => Running

(***************************************************************************)
(* C17                                                                     *)
(***************************************************************************)
\* C17 (as claimed): a tool call whose code is one of the two codes recorded last
\* gets a tool message with the advisory note, whether its execution returned or
\* faulted.
C17_RepeatAlwaysAnnotated ==
    \A i \in 1..Len(intermediate_steps) :
        SubmittedJustBefore(i) => Annotated(i)

\* C17 (amended): a tool call whose code is one of the two codes recorded last
\* gets a tool message with the advisory note when its execution returned; the
\* error message of a faulted execution carries no note.
C17_RepeatAnnotatedOnReturn ==
    LET tm == ToolMsgs
    IN  \A i \in 1..Len(intermediate_steps) :
            /\ (SubmittedJustBefore(i) /\ ~Faulted(intermediate_steps[i]))
                   => HasAdvisory(tm[i].content)
            /\ Faulted(intermediate_steps[i])
                   => tm[i].content = intermediate_steps[i].observation
            /\ Faulted(intermediate_steps[i]) => ~HasAdvisory(tm[i].content)

\* A repeated code whose execution returned, annotated, and a repeated code whose
\* execution faulted, bare
C17_Witness ==
    \E i, j \in 1..Len(intermediate_steps) :
        /\ SubmittedJustBefore(i) /\ ~Faulted(intermediate_steps[i]) /\ Annotated(i)
        /\ SubmittedJustBefore(j) /\ Faulted(intermediate_steps[j]) /\ ~Annotated(j)

(***************************************************************************)
(* C18                                                                     *)
(***************************************************************************)
\* The codes of the steps recorded, in the order of their submission
StepCodes == [i \in 1..Len(intermediate_steps) |-> intermediate_steps[i].tool_input]

\* C18: previous_codes never holds more than MaxPreviousCodes entries and is the
\* last up-to-MaxPreviousCodes submitted codes in the order of their submission
\* (the oldest is the one evicted); a code is checked before it is pushed, so a
\* result is annotated as a repetition only for a code submitted before it.
C18_WindowIsLastCodes ==
    /\ Len(previous_codes) <= MaxPreviousCodes
    /\ previous_codes = LastN(StepCodes, MaxPreviousCodes)
    /\ LET tm == ToolMsgs
       IN  \A i \in 1..Len(intermediate_steps) :
               HasAdvisory(tm[i].content) =>
                   (SubmittedJustBefore(i) \/ PrintHintDue(i))

\* The window is full, older codes were evicted, and it holds two different codes
C18_Witness ==
    /\ Len(intermediate_steps) > MaxPreviousCodes + 1
    /\ Len(previous_codes) = MaxPreviousCodes
    /\ previous_codes[1] # previous_codes[2]
    /\ \E i \in 1..Len(intermediate_steps) : ~Annotated(i)

(***************************************************************************)
(* C19                                                                     *)
(***************************************************************************)
\* The code the claims expect of a call's arguments: of a mapping, given or
\* decoded from JSON, the 'query' field, else the 'code' field, else the 'input'
\* field, else the stringified mapping; of a string that is not JSON, the string
PrecedenceCode(args) ==
    LET m == IF args.t = "str" THEN json_loads(args.s).value ELSE args
    IN  IF args.t = "str" /\ ~json_loads(args.s).ok THEN args.s
        ELSE IF HasKey(m, "query") THEN Lookup(m, "query")
        ELSE IF HasKey(m, "code") THEN Lookup(m, "code")
        ELSE IF HasKey(m, "input") THEN Lookup(m, "input")
        ELSE StrOfDict(m)

\* The tool calls that the assistant messages of the conversation carry
CallsMade ==
    LET ai == AIMsgs
    IN  UNION {{ai[j].tool_calls[k] : k \in 1..Len(ai[j].tool_calls)} : j \in 1..Len(ai)}

\* C19: at every model request and in every result returned, there are as many
\* steps as tool messages, and the i-th step holds the code dispatched for the
\* call that the i-th tool message answers.
C19_StepsMatchToolMessages ==
    (pc = "AWAIT_MODEL" \/ result.kind = "return") =>
        /\ Len(intermediate_steps) = Len(ToolMsgs)
        /\ result.kind = "return" => result.intermediate_steps = intermediate_steps
        /\ LET tm == ToolMsgs
               made == CallsMade
           IN  \A i \in 1..Len(tm) :
                   \E c \in made :
                       /\ c.id = tm[i].tool_call_id
                       /\ intermediate_steps[i].tool_input = PrecedenceCode(c.args)

\* A result returned with steps of returned and of faulted executions, of calls
\* with different arguments
C19_Witness ==
    /\ result.kind = "return"
    /\ \E i, j \in 1..Len(result.intermediate_steps) :
           /\ Faulted(result.intermediate_steps[i])
           /\ ~Faulted(result.intermediate_steps[j])
           /\ result.intermediate_steps[i].tool_input #
                  result.intermediate_steps[j].tool_input

(***************************************************************************)
(* C20                                                                     *)
(***************************************************************************)
\* What the tool did with the call that carries an id
OutcomeOf(id) == script[IF id[1] = 1 THEN 1 ELSE 2].calls[id[2]].outcome

\* C20: the observation of a step of a returned execution is what the tool
\* returned and holds no advisory text; the tool message is that output, followed
\* by the advisory text when it is annotated.
C20_ObservationIsRawOutput ==
    LET tm == ToolMsgs
    IN  \A i \in 1..Len(intermediate_steps) :
            /\ ~HasAdvisory(intermediate_steps[i].observation)
            /\ ~OutcomeOf(tm[i].tool_call_id).raises =>
                   /\ intermediate_steps[i].observation = OutcomeOf(tm[i].tool_call_id).text
                   /\ StartsWith(tm[i].content, intermediate_steps[i].observation)
                   /\ HasAdvisory(tm[i].content) =>
                          tm[i].content # intermediate_steps[i].observation

C20_Witness ==
    \E i \in 1..Len(intermediate_steps) :
        /\ Annotated(i)
        /\ intermediate_steps[i].observation = <<"4">>
        /\ result.kind = "return"

(***************************************************************************)
(* C12                                                                     *)
(***************************************************************************)
\* The arguments of the tool call that the model client sends in every round
ArgsSent == script[1].calls[1].args

\* C12: the code of every execution is picked from the arguments by a fixed
\* precedence: of a mapping, given or decoded from JSON, the 'query' field, else
\* the 'code' field, else the 'input' field, else the stringified arguments; of a
\* string that is not JSON, the string itself.
C12_CodeByPrecedence ==
    /\ \A i \in 1..Len(intermediate_steps) :
           intermediate_steps[i].tool_input = PrecedenceCode(ArgsSent)
    /\ \A i \in 1..Len(previous_codes) :
           previous_codes[i] = PrecedenceCode(ArgsSent)

\* Arguments with an 'input' field before a 'code' field and no 'query' field
\* were executed, and the 'code' field was the code
C12_Witness ==
    /\ ArgsSent = DictOf(<<"other", "input", "code">>)
    /\ Len(intermediate_steps) >= 2
    /\ intermediate_steps[1].tool_input = CodeCall

(***************************************************************************)
(* C14                                                                     *)
(***************************************************************************)
\* The module root names a submission may import (numeric, symbolic-algebra,
\* plotting, data-table and arbitrary-precision libraries)
AllowedModules ==
    {<<"n","u","m","p","y">>, <<"s","y","m","p","y">>, <<"p","a","n","d","a","s">>,
     <<"m","p","m","a","t","h">>, <<"m","a","t","h">>,
     <<"m","a","t","p","l","o","t","l","i","b">>}

DisallowedImports(code) == ImportRoots(code) \ AllowedModules

\* C14 (as claimed): a submission that imports a module outside the allow-list
\* is answered with a capability error, and nothing of it is executed: the module
\* is not bound in the session.
C14_DisallowedImportRejected ==
    \A i \in 1..Len(intermediate_steps) :
        DisallowedImports(intermediate_steps[i].tool_input) # {} =>
            /\ Contains(intermediate_steps[i].observation, <<"CapabilityError">>)
            /\ DisallowedImports(intermediate_steps[i].tool_input) \cap bindings = {}

(***************************************************************************)
(* C15                                                                     *)
(***************************************************************************)
\* A prior turn as a message of the conversation
TurnMessage(turn) ==
    [role |-> IF turn.role = "user" THEN "human" ELSE "ai", content |-> turn.content,
     tool_calls |-> <<>>, tool_call_id |-> NoId]

\* C15 (as claimed): the conversation of the first model request is the system
\* message, the prior turns the caller passed, in order, and the current input.
C15_HistoryPrefixed ==
    (pc = "AWAIT_MODEL" /\ llm_requests = 0) =>
        messages = <<SystemMessage>>
                   \o [i \in 1..Len(input_dict.conversation_history) |->
                          TurnMessage(input_dict.conversation_history[i])]
                   \o <<HumanMessage(input_dict.input)>>

(***************************************************************************)
(* C16                                                                     *)
(***************************************************************************)
\* C16 (as claimed): under any interleaving of the conversations of one process,
\* the figure a conversation wrote to graph.png is never read, displayed or saved
\* into the history by another conversation.
C16_NoPlotAcrossConversations ==
    \A s \in Sessions :
        /\ \A plot \in displayed[s] : plot.session = s
        /\ image_data[s] # NoFile => image_data[s].session = s
        /\ \A i \in 1..Len(st_messages[s]) :
               st_messages[s][i].image # NoFile => st_messages[s][i].image.session = s

(***************************************************************************)
(* C21                                                                     *)
(***************************************************************************)
\* C21 (as claimed): over any sequence of prompts of a chat session, the plot
\* read for an answer and the plot stored with an answer in the history were
\* written during the agent run for that same prompt, never left by an earlier
\* run of the session.
C21_PlotOfSamePrompt ==
    \A s \in Sessions :
        /\ (ui_pc[s] \in {"REMOVE", "SAVE"} /\ image_data[s].session = s)
               => image_data[s].prompt = prompts[s]
        /\ \A i \in 1..Len(st_messages[s]) :
               st_messages[s][i].image.session = s
                   => st_messages[s][i].image.prompt = st_messages[s][i].prompt

====
